---------------------------- MODULE Spec2Model ----------------------------
(***************************************************************************)
(* A model of cmds/bootanimation/BootAnimation.cpp: the ring console       *)
(* (initBuffer, printLine, replaceLine, drawText), the log merge and       *)
(* filter (initLogDevice, processLog) inside the text() loop, the input    *)
(* discovery and poll (initInput, checkInput) and the parser of the        *)
(* animation description (movie).                                          *)
(***************************************************************************)
EXTENDS Integers, Sequences, FiniteSets, TLC

VARIABLES
    mLineBuffer,    \* char mLineBuffer[mRows][mCols + 1]
    mBufferPos,     \* the write cursor of the ring console
    hist,           \* history: the console calls made so far, <<[op, s]>>
    desc,           \* desc.txt: its lines that end with "\n", each a token list
    descTail,       \* desc.txt: what follows its last "\n"
    sLine,          \* movie(): s, as the index of the line it points to
    animation,      \* movie(): Animation animation
    parsePc,        \* movie(): "parse" in the parse loop, "parsed" after it
    archive,        \* mZip: whether it has desc.txt, and how many stored png
                    \* frames it has under each path
    mAndroidAnimation,
    partI,          \* movie(): i of the loop over the parts (from 0)
    rep,            \* movie(): r of the loop over the repetitions
    frameJ,         \* movie(): j of the loop over the frames (from 0)
    sinceLast,      \* movie(): systemTime() - lastFrame, in ns
    delay,          \* movie(): nsecs_t delay of the last frame
    shown,          \* history: the frames this movie() call has drawn and the
                    \* pauses it has slept
    inputDir,       \* /dev/input: whether opendir succeeds, and its entries
    mInputDevice,   \* int mInputDevice
    inputPc,        \* "init" before initInput has run, "ready" after
    initResult,     \* what initInput returned
    selected,       \* the entry of inputDir initInput returned true on (0: none)
    fdsRead,        \* history: the descriptors checkInput has read from
    lastKind,       \* history: what the last read of checkInput returned:
                    \* "none", "key" (a key-down event of type EV_KEY with a
                    \* volume code) or "other" (any other event)
    polls,          \* history: how many reads of checkInput were made (alone)
                    \* or returned an event (in a mode loop)
    mDisplayPriority,
    mSwitching,
    pc,             \* where the thread is: "outer", "text", "textLoop",
                    \* "processLog", "textExit", "anim", "android",
                    \* "movieParse", "movieI", "movieR", "movieJ", "crashed",
                    \* "stopped"
    rLoop,          \* threadLoop(): bool r
    exitPending,    \* Thread::exitPending()
    shouldDraw,     \* text(): bool shouldDraw
    mLogDevices,    \* int mLogDevices[N_LOG_DEVICES]
    nStartups,
    entries,        \* processLog(): union logger_buf entries[N_LOG_DEVICES]
    nextEntry,      \* processLog(): nextEntry, as a device index (-1: NULL)
    linesAdded,     \* processLog(): bool linesAdded
    logSource,      \* the log devices: the payloads and times they deliver
    devLast,        \* the log devices: the time of the last entry of each
    nReads,         \* history: how many entries the devices have delivered
    ticks,          \* history: how many turns of the text() loop were begun
    delivered,      \* history: the entries this processLog call has decoded
    nBanners,       \* history: how many boot loop banners were printed
    nAfter,         \* history: how many entries were decoded when nStartups
                    \* was above 1 already
    pollEnd,        \* history: how the last processLog call of this text()
                    \* ended
    lastSwap        \* history: the eglSwapBuffers call of the last turn of a
                    \* mode loop: "ok", "fail", or "none" (it made none)

consoleVars == <<mLineBuffer, mBufferPos, hist>>
parseVars == <<desc, descTail, sLine, animation, parsePc, archive, mAndroidAnimation,
              partI, rep, frameJ, sinceLast, delay, shown>>
inputVars == <<inputDir, mInputDevice, inputPc, initResult, selected, fdsRead, polls,
              lastKind>>
modeVars == <<mDisplayPriority, mSwitching>>
threadVars == <<pc, rLoop, exitPending>>
logVars == <<shouldDraw, mLogDevices, nStartups, entries, nextEntry, linesAdded,
             logSource, devLast, nReads, ticks, delivered, nBanners, nAfter, pollEnd,
             lastSwap>>

vars == <<consoleVars, parseVars, inputVars, modeVars, threadVars, logVars>>

---------------------------------------------------------------------------
(* Sizes of the model.                                                     *)

\* mRows = mHeight / mFontHeight, mCols = mWidth / mFontWidth (initFont)
mRows == 3
mCols == 2
\* how many console calls a behaviour of SpecConsole makes
MaxOps == 4

\* how many "\n"-terminated lines desc.txt has at most
MaxLines == 3
\* how many entries /dev/input has at most
MaxDevices == 2
\* how many checkInput calls a behaviour of SpecInput makes
MaxPolls == 3

\* how many turns of the text() loop a behaviour begins
MaxTicks == 2
\* how many entries the log devices deliver in a behaviour
MaxReads == 2
\* how many key events the input device delivers to a mode loop
MaxKeys == 1

\* '\0'
NUL == 0

\* const char* devname[N_LOG_DEVICES] has two names
N_LOG_DEVICES == 2
Devs == 0 .. N_LOG_DEVICES - 1

\* a slot of entries[] whose entry.len is 0
EmptySlot == [len |-> 0, sec |-> 0, nsec |-> 0, prio |-> 0, tag |-> "", msg |-> "",
              src |-> "none"]

\* android/log.h, linux/input.h
ANDROID_LOG_FATAL == 7
ANDROID_LOG_SILENT == 8
EV_KEY == 1
KEY_VOLUMEDOWN == 114
KEY_VOLUMEUP == 115

---------------------------------------------------------------------------
(* Helpers on sequences.                                                   *)

Min(a, b) == IF a < b THEN a ELSE b

\* the last n elements of s (all of s when it is shorter)
LastN(s, n) == SubSeq(s, Len(s) - Min(n, Len(s)) + 1, Len(s))

\* the first n elements of s (all of s when it is shorter)
FirstN(s, n) == SubSeq(s, 1, Min(n, Len(s)))

RECURSIVE Flatten(_)
Flatten(ss) == IF ss = <<>> THEN <<>> ELSE Head(ss) \o Flatten(Tail(ss))

---------------------------------------------------------------------------
(* The ring console.                                                       *)

\* initBuffer: mRows rows of mCols + 1 chars, all '\0'
EmptyBuffer == [i \in 0 .. mRows - 1 |-> [j \in 0 .. mCols |-> NUL]]

\* the first loop of printLine: one char per step, wrapping to the next row
\* as soon as col reaches mCols
RECURSIVE printChars(_, _, _, _)
printChars(buf, pos, col, s) ==
    IF s = <<>> THEN [buf |-> buf, pos |-> pos, col |-> col]
    ELSE LET b1 == [buf EXCEPT ![pos][col] = Head(s)]
         IN  IF col + 1 >= mCols
             THEN printChars(b1, (pos + 1) % mRows, 0, Tail(s))
             ELSE printChars(b1, pos, col + 1, Tail(s))

\* printLine without the padding loop
printLineNoPad(buf, pos, s) ==
    LET w == printChars(buf, pos, 0, s)
    IN  [buf |-> w.buf, pos |-> (w.pos + 1) % mRows]

\* printLine that pads but forgets the final advance of the cursor
printLineNoAdvance(buf, pos, s) ==
    LET w == printChars(buf, pos, 0, s)
    IN  [buf |-> [w.buf EXCEPT ![w.pos] =
                     [j \in 0 .. mCols |->
                         IF j >= w.col /\ j < mCols THEN NUL ELSE w.buf[w.pos][j]]],
         pos |-> w.pos]

\* printLine(s): the chars, then '\0' up to mCols, then the cursor advances
printLine(buf, pos, s) ==
    LET w == printChars(buf, pos, 0, s)
    IN  [buf |-> [w.buf EXCEPT ![w.pos] =
                     [j \in 0 .. mCols |->
                         IF j >= w.col /\ j < mCols THEN NUL ELSE w.buf[w.pos][j]]],
         pos |-> (w.pos + 1) % mRows]

\* the row replaceLine writes
replaceRow(pos) == (mRows + pos - 1) % mRows

\* the loop of replaceLine: s[i] for i < mCols, up to and including the
\* terminating '\0' of s
replaceChars(row, s) ==
    [j \in 0 .. mCols |->
        IF j < mCols /\ j < Len(s) THEN s[j + 1]
        ELSE IF j < mCols /\ j = Len(s) THEN NUL
        ELSE row[j]]

\* replaceLine that writes the row under the cursor
replaceLineAtCursor(buf, pos, s) ==
    [buf |-> [buf EXCEPT ![pos] = replaceChars(buf[pos], s)], pos |-> pos]

\* replaceLine(s)
replaceLine(buf, pos, s) ==
    [buf |-> [buf EXCEPT ![replaceRow(pos)] = replaceChars(buf[replaceRow(pos)], s)],
     pos |-> pos]

\* a row as drawText reads it: the chars before the first '\0'
RECURSIVE rowString(_, _)
rowString(row, j) ==
    IF row[j] = NUL THEN <<>> ELSE <<row[j]>> \o rowString(row, j + 1)

\* drawText: the mRows rows from mBufferPos on, in ring order
drawText(buf, pos) ==
    [i \in 1 .. mRows |-> rowString(buf[(pos + i - 1) % mRows], 0)]

---------------------------------------------------------------------------
(* The console alone: any printLine and replaceLine calls.                 *)

\* the text of a call: n times a char that names the call
Text(n) == [i \in 1 .. n |-> Len(hist) + 1]

PrintLens == 0 .. 2 * mCols
ReplaceLens == 0 .. mCols + 1

\* the parts of the state a specification does not use stay as they are here
IdleConsole == mLineBuffer = EmptyBuffer /\ mBufferPos = 0 /\ hist = <<>>
IdleParse ==
    /\ desc = <<>> /\ descTail = <<>> /\ sLine = 1
    /\ animation = [width |-> 0, height |-> 0, fps |-> 0, parts |-> <<>>]
    /\ parsePc = "parsed"
    /\ archive = [desc |-> FALSE, frames |-> <<>>]
    /\ mAndroidAnimation = TRUE
    /\ partI = 0 /\ rep = 0 /\ frameJ = 0 /\ sinceLast = 0 /\ delay = 0 /\ shown = <<>>
IdleInput ==
    /\ inputDir = [open |-> FALSE, entries |-> <<>>]
    /\ mInputDevice = -1 /\ inputPc = "ready" /\ initResult = FALSE
    /\ selected = 0 /\ fdsRead = {} /\ polls = 0 /\ lastKind = "none"
IdleMode == mDisplayPriority = ANDROID_LOG_SILENT /\ mSwitching = FALSE
IdleThread ==
    /\ pc = "stopped" /\ rLoop = FALSE /\ exitPending = FALSE
    /\ shouldDraw = FALSE
    /\ mLogDevices = [i \in Devs |-> 0]
    /\ nStartups = 0
    /\ entries = [i \in Devs |-> EmptySlot]
    /\ nextEntry = -1
    /\ linesAdded = FALSE
    /\ logSource = [payloads |-> [i \in Devs |-> {}], times |-> {}]
    /\ devLast = [i \in Devs |-> <<0, 0>>]
    /\ nReads = 0 /\ ticks = 0 /\ delivered = <<>> /\ nBanners = 0 /\ nAfter = 0
    /\ pollEnd = "none"
    /\ lastSwap = "none"

InitConsole ==
    /\ mLineBuffer = EmptyBuffer
    /\ mBufferPos = 0
    /\ hist = <<>>
    /\ IdleParse /\ IdleInput /\ IdleMode /\ IdleThread

PrintLineCall ==
    /\ Len(hist) < MaxOps
    /\ \E n \in PrintLens :
          LET r == printLine(mLineBuffer, mBufferPos, Text(n))
          IN  /\ mLineBuffer' = r.buf
              /\ mBufferPos' = r.pos
              /\ hist' = Append(hist, [op |-> "printLine", s |-> Text(n)])
    /\ UNCHANGED <<parseVars, inputVars, modeVars, threadVars, logVars>>

ReplaceLineCall ==
    /\ Len(hist) < MaxOps
    /\ \E n \in ReplaceLens :
          LET r == replaceLine(mLineBuffer, mBufferPos, Text(n))
          IN  /\ mLineBuffer' = r.buf
              /\ mBufferPos' = r.pos
              /\ hist' = Append(hist, [op |-> "replaceLine", s |-> Text(n)])
    /\ UNCHANGED <<parseVars, inputVars, modeVars, threadVars, logVars>>

NextConsole == PrintLineCall \/ ReplaceLineCall

SpecConsole == InitConsole /\ [][NextConsole]_vars

---------------------------------------------------------------------------
(* Claims about the console.                                               *)

\* the calls so far were all printLine calls
AllPrints == \A i \in 1 .. Len(hist) : hist[i].op = "printLine"

\* the last call, when there is one
LastOp == hist[Len(hist)]

\* this step is a call of op
IsCall(op) == Len(hist') = Len(hist) + 1 /\ hist'[Len(hist')].op = op

\* the mCols-wide pieces of a line of length L: L \div mCols full pieces and
\* the rest, which is empty when mCols divides L
Chunks(s) ==
    [k \in 1 .. (Len(s) \div mCols) + 1 |->
        SubSeq(s, (k - 1) * mCols + 1, Min(k * mCols, Len(s)))]

\* a row holding the chars of c and '\0' after them
PaddedRow(c) == [j \in 0 .. mCols |-> IF j < Len(c) THEN c[j + 1] ELSE NUL]

AllChunks == Flatten([i \in 1 .. Len(hist) |-> Chunks(hist[i].s)])

\* C1 as stated: after more than mRows printLine calls drawText reads the
\* last mRows inserted lines, one line (cut to mCols) per row, oldest first,
\* whatever the lengths of the lines.
C1_SnapshotIsLastLines ==
    (AllPrints /\ Len(hist) > mRows) =>
        drawText(mLineBuffer, mBufferPos) =
            LastN([i \in 1 .. Len(hist) |-> FirstN(hist[i].s, mCols)], mRows)

\* C1 amended: after more than mRows printLine calls drawText reads exactly
\* mRows rows, the last mRows pieces written, oldest first, where a line of
\* length L is written as (L \div mCols) + 1 pieces on as many rows; so the
\* rows are the last mRows lines when every line is shorter than mCols.
C1_SnapshotIsLastChunks ==
    (AllPrints /\ Len(hist) > mRows) =>
        /\ Len(drawText(mLineBuffer, mBufferPos)) = mRows
        /\ drawText(mLineBuffer, mBufferPos) = LastN(AllChunks, mRows)
        /\ (\A i \in 1 .. Len(hist) : Len(hist[i].s) < mCols) =>
              drawText(mLineBuffer, mBufferPos) =
                  LastN([i \in 1 .. Len(hist) |-> hist[i].s], mRows)

\* more than mRows printLine calls, a line as long as a row among the last
\* mRows, and a short line
C1_Witness ==
    /\ AllPrints /\ Len(hist) > mRows
    /\ \E i \in Len(hist) - mRows + 1 .. Len(hist) : Len(hist[i].s) >= mCols
    /\ \E i \in 1 .. Len(hist) : Len(hist[i].s) \in 1 .. mCols - 1

\* C2 as stated: every printLine call writes the one row under the cursor
\* (the first mCols chars, '\0' after them), leaves the other rows alone and
\* advances the cursor by one.
C2_PrintLineOneRow ==
    [][IsCall("printLine") =>
          /\ mBufferPos' = (mBufferPos + 1) % mRows
          /\ mLineBuffer'[mBufferPos] = PaddedRow(FirstN(hist'[Len(hist')].s, mCols))
          /\ \A r \in 0 .. mRows - 1 :
                r # mBufferPos => mLineBuffer'[r] = mLineBuffer[r]]_vars

\* C2 amended: a printLine call with a text of length L writes the
\* K + 1 rows from the cursor on, K = L \div mCols, each with the next mCols
\* chars of the text and '\0' after them (the last one is all '\0' when
\* mCols divides L), leaves every other row alone and advances the cursor by
\* K + 1; a text shorter than mCols takes one row, a longer one is wrapped.
C2_PrintLineWraps ==
    [][IsCall("printLine") =>
          LET s == hist'[Len(hist')].s
              K == Len(s) \div mCols
          IN  /\ mBufferPos' = (mBufferPos + K + 1) % mRows
              /\ \A k \in 0 .. K :
                    k + mRows > K =>
                        mLineBuffer'[(mBufferPos + k) % mRows] =
                            PaddedRow(Chunks(s)[k + 1])
              /\ \A r \in 0 .. mRows - 1 :
                    (\A k \in 0 .. K : r # (mBufferPos + k) % mRows) =>
                        mLineBuffer'[r] = mLineBuffer[r]
              /\ Len(s) < mCols =>
                    /\ mBufferPos' = (mBufferPos + 1) % mRows
                    /\ mLineBuffer'[mBufferPos] = PaddedRow(s)]_vars

\* a printLine call of a text longer than a row has been made over a row
\* that held a text
C2_Witness ==
    /\ Len(hist) >= mRows
    /\ LastOp.op = "printLine"
    /\ Len(LastOp.s) > mCols
    /\ Len(hist[1].s) > 0

\* C3: a replaceLine call writes the row before the cursor, (mBufferPos - 1
\* + mRows) mod mRows, with the first mCols chars of the text, and leaves
\* the cursor, every other row and the number of rows drawText reads as
\* they were.
C3_ReplaceLineFrame ==
    [][IsCall("replaceLine") =>
          LET s == hist'[Len(hist')].s
              row == (mBufferPos - 1 + mRows) % mRows
          IN  /\ mBufferPos' = mBufferPos
              /\ \A r \in 0 .. mRows - 1 :
                    r # row => mLineBuffer'[r] = mLineBuffer[r]
              /\ \A j \in 0 .. mCols - 1 :
                    j < Len(s) => mLineBuffer'[row][j] = s[j + 1]
              /\ DOMAIN mLineBuffer' = DOMAIN mLineBuffer
              /\ Len(drawText(mLineBuffer', mBufferPos')) =
                     Len(drawText(mLineBuffer, mBufferPos))]_vars

\* a replaceLine call of a text has been made after printLine calls, with
\* the cursor away from row 0
C3_Witness ==
    /\ Len(hist) >= 2
    /\ LastOp.op = "replaceLine"
    /\ Len(LastOp.s) > 0
    /\ hist[1].op = "printLine"
    /\ mBufferPos # 0
    /\ mLineBuffer[replaceRow(mBufferPos)][0] = Len(hist)

\* C18: in every row, after the first '\0' among its mCols chars all chars
\* are '\0'.
C18_RowsNullPadded ==
    \A r \in 0 .. mRows - 1 : \A j \in 0 .. mCols - 1 :
        mLineBuffer[r][j] = NUL =>
            \A k \in j .. mCols - 1 : mLineBuffer[r][k] = NUL

---------------------------------------------------------------------------
(* movie(): the parse of desc.txt.                                         *)

\* a token of a line: an integer (%d reads it), the letter p, or a word
I(n) == [k |-> "int", v |-> n]
P == [k |-> "p", v |-> 0]
W(n) == [k |-> "word", v |-> n]

IsInt(l, i) == i <= Len(l) /\ l[i].k = "int"

\* sscanf(l, "%d %d %d", &width, &height, &fps) == 3
ScansSize(l) == IsInt(l, 1) /\ IsInt(l, 2) /\ IsInt(l, 3)

\* sscanf(l, "p %d %d %s", &count, &pause, path) == 3
ScansPart(l) == Len(l) >= 4 /\ l[1] = P /\ IsInt(l, 2) /\ IsInt(l, 3)

\* the size line read with fps, width, height in the order of the LOGD
parseSizeSwapped(a, l) ==
    IF ScansSize(l)
    THEN [a EXCEPT !.width = l[3].v, !.height = l[1].v, !.fps = l[2].v]
    ELSE a

\* the first sscanf of the loop body and its assignments
parseSize(a, l) ==
    IF ScansSize(l)
    THEN [a EXCEPT !.width = l[1].v, !.height = l[2].v, !.fps = l[3].v]
    ELSE a

\* the second sscanf of the loop body and animation.parts.add(part)
parsePart(a, l) ==
    IF ScansPart(l)
    THEN [a EXCEPT !.parts =
             Append(@, [count |-> l[2].v, pause |-> l[3].v, path |-> l[4]])]
    ELSE a

\* the lines a description is made of
SizeLines == { <<I(1), I(2), I(3)>>, <<I(4), I(5), I(6)>> }
PartLines == { <<P, I(1), I(0), W(0)>>, <<P, I(0), I(5), W(1)>> }
OtherLines == { <<W(0)>>, <<I(1), I(2)>>, <<>> }
DescLines == SizeLines \cup PartLines \cup OtherLines

\* Animation animation; has no initialiser: width, height and fps hold what
\* the stack held
Indeterminate == {0, 77}

InitParse ==
    /\ desc \in UNION { [1 .. n -> DescLines] : n \in 0 .. MaxLines }
    /\ descTail \in { <<>>, <<I(4), I(5), I(6)>>, <<P, I(1), I(0), W(0)>> }
    /\ sLine = 1
    /\ \E w \in Indeterminate, h \in Indeterminate, f \in Indeterminate :
          animation = [width |-> w, height |-> h, fps |-> f, parts |-> <<>>]
    /\ parsePc = "parse"
    /\ archive = [desc |-> TRUE, frames |-> <<>>]
    /\ mAndroidAnimation = FALSE
    /\ partI = 0 /\ rep = 0 /\ frameJ = 0 /\ sinceLast = 0 /\ delay = 0 /\ shown = <<>>
    /\ IdleConsole /\ IdleInput /\ IdleMode /\ IdleThread

\* one turn of the for (;;) loop with endl found
ParseLine ==
    /\ parsePc = "parse"
    /\ sLine <= Len(desc)
    /\ animation' = parsePart(parseSize(animation, desc[sLine]), desc[sLine])
    /\ sLine' = sLine + 1
    /\ UNCHANGED <<desc, descTail, parsePc, archive, mAndroidAnimation, partI, rep,
                   frameJ, sinceLast, delay, shown, consoleVars, inputVars, modeVars,
                   threadVars, logVars>>

\* if (!endl) break;
ParseEnd ==
    /\ parsePc = "parse"
    /\ sLine > Len(desc)
    /\ parsePc' = "parsed"
    /\ UNCHANGED <<desc, descTail, sLine, animation, archive, mAndroidAnimation,
                   partI, rep, frameJ, sinceLast, delay, shown, consoleVars, inputVars,
                   modeVars, threadVars, logVars>>

NextParse == ParseLine \/ ParseEnd

SpecParse == InitParse /\ [][NextParse]_vars

---------------------------------------------------------------------------
(* Claims about the parse.                                                 *)

\* the indexes of the "\n"-terminated size lines
SizeIdx == { i \in 1 .. Len(desc) : ScansSize(desc[i]) }

MinOf(S) == CHOOSE x \in S : \A y \in S : x <= y
MaxOf(S) == CHOOSE x \in S : \A y \in S : x >= y

SizeOf(l) == <<l[1].v, l[2].v, l[3].v>>

\* C8 as stated: with more than one size line, width, height and fps are
\* those of the first one.
C8_FirstSizeLineWins ==
    (parsePc = "parsed" /\ Cardinality(SizeIdx) > 1) =>
        <<animation.width, animation.height, animation.fps>> =
            SizeOf(desc[MinOf(SizeIdx)])

\* C8 amended: with more than one size line, width, height and fps are those
\* of the last size line that ends with a newline; earlier ones are
\* overwritten, and a size line after the last newline is not read.
C8_LastSizeLineWins ==
    (parsePc = "parsed" /\ Cardinality(SizeIdx) > 1) =>
        <<animation.width, animation.height, animation.fps>> =
            SizeOf(desc[MaxOf(SizeIdx)])

\* a parsed description with two different size lines, and a third after
\* the last newline
C8_Witness ==
    /\ parsePc = "parsed"
    /\ Cardinality(SizeIdx) > 1
    /\ desc[MinOf(SizeIdx)] # desc[MaxOf(SizeIdx)]
    /\ ScansSize(descTail)
    /\ descTail # desc[MaxOf(SizeIdx)]

---------------------------------------------------------------------------
(* initInput and checkInput.                                               *)

\* the descriptor openat returns for entry i of /dev/input
InputFd(i) == 10 + i

\* KEY_IN_BITMASK(key_bitmask, KEY_VOLUMEUP) || KEY_IN_BITMASK(key_bitmask,
\* KEY_VOLUMEDOWN), on the bitmap EVIOCGBIT filled for entry e
HasRequiredKeys(e) == e.up \/ e.down

\* the while ((de = readdir(inputdir))) loop from entry i on, mInputDevice
\* being fd: what initInput returns, mInputDevice after it, the entry it
\* stopped on and the descriptors it left open
RECURSIVE scanInput(_, _, _)
scanInput(des, i, fd) ==
    IF i > Len(des) THEN [ret |-> FALSE, fd |-> fd, sel |-> 0, open |-> {}]
    ELSE LET e == des[i] IN
         IF ~e.event THEN scanInput(des, i + 1, fd)
         ELSE IF ~e.openOk THEN scanInput(des, i + 1, -1)
         ELSE IF ~e.ioctlOk THEN scanInput(des, i + 1, InputFd(i))
         ELSE IF HasRequiredKeys(e)
              THEN [ret |-> TRUE, fd |-> InputFd(i), sel |-> i, open |-> {InputFd(i)}]
         ELSE scanInput(des, i + 1, 0)

\* initInput(), mInputDevice being fd when it is called
initInput(dir, fd) ==
    IF ~dir.open THEN [ret |-> FALSE, fd |-> 0, sel |-> 0, open |-> {}]
    ELSE scanInput(dir.entries, 1, fd)

\* struct input_event, the fields checkInput looks at
InputEvents == [type : {0, EV_KEY}, code : {KEY_VOLUMEDOWN, KEY_VOLUMEUP, 116},
                value : {0, 1, 2}]

\* buf[0].type | EV_KEY && buf[0].value == 1: a bitwise or with EV_KEY, which
\* is never 0
IsKeyDown(ev) == (ev.type # 0 \/ EV_KEY # 0) /\ ev.value = 1

\* checkInput(): whether it reads mInputDevice
checkInputReads(fd) == ~(fd < 0)

\* checkInput() after a read that returned the event ev (NoEvent: the read
\* returned nothing): mSwitching, mDisplayPriority and the return value
NoEvent == [type |-> 0, code |-> 0, value |-> 0]
checkInput(ev, prio, sw) ==
    IF ev # NoEvent /\ IsKeyDown(ev) /\ ev.code = KEY_VOLUMEUP
    THEN [ret |-> TRUE, prio |-> prio - 1, sw |-> TRUE]
    ELSE IF ev # NoEvent /\ IsKeyDown(ev) /\ ev.code = KEY_VOLUMEDOWN
    THEN [ret |-> TRUE, prio |-> prio + 1, sw |-> TRUE]
    ELSE [ret |-> FALSE, prio |-> prio, sw |-> sw]

\* what an event read is: a key-down event of type EV_KEY with one of the
\* two volume codes, any other event, or no event
EventKind(ev) ==
    IF ev = NoEvent THEN "none"
    ELSE IF ev.type = EV_KEY /\ ev.value = 1
            /\ ev.code \in {KEY_VOLUMEUP, KEY_VOLUMEDOWN} THEN "key"
    ELSE "other"

\* what /dev/input may hold: an entry's later fields are FALSE when the
\* discovery does not get to them
InputEntries ==
    { e \in [event : BOOLEAN, openOk : BOOLEAN, ioctlOk : BOOLEAN,
             up : BOOLEAN, down : BOOLEAN] :
        /\ e.openOk => e.event
        /\ e.ioctlOk => e.openOk
        /\ (e.up \/ e.down) => e.ioctlOk }

\* mInputDevice is set by no constructor: before initInput it holds anything
InitInput ==
    /\ inputDir \in [open : BOOLEAN,
                     entries : UNION { [1 .. n -> InputEntries] : n \in 0 .. MaxDevices }]
    /\ mInputDevice \in {-1, 0, 5}
    /\ inputPc = "init"
    /\ initResult = FALSE
    /\ selected = 0
    /\ fdsRead = {}
    /\ polls = 0
    /\ lastKind = "none"
    /\ mDisplayPriority = ANDROID_LOG_SILENT
    /\ mSwitching = FALSE
    /\ IdleConsole /\ IdleParse /\ IdleThread

\* readyToRun: initInput()
InitInputCall ==
    /\ inputPc = "init"
    /\ LET r == initInput(inputDir, mInputDevice)
       IN  /\ mInputDevice' = r.fd
           /\ initResult' = r.ret
           /\ selected' = r.sel
    /\ inputPc' = "ready"
    /\ UNCHANGED <<inputDir, fdsRead, polls, lastKind, modeVars, consoleVars, parseVars,
                   threadVars, logVars>>

\* checkInput() when mInputDevice < 0
CheckInputNoDevice ==
    /\ inputPc = "ready"
    /\ polls < MaxPolls
    /\ ~checkInputReads(mInputDevice)
    /\ polls' = polls + 1
    /\ UNCHANGED <<inputDir, mInputDevice, inputPc, initResult, selected, fdsRead,
                   lastKind, modeVars, consoleVars, parseVars, threadVars, logVars>>

\* checkInput() otherwise: one read of mInputDevice.  The read returns an
\* event or nothing; a descriptor that initInput closed, or descriptor 0, is
\* whatever file the process has under that number by then.
CheckInputRead ==
    /\ inputPc = "ready"
    /\ polls < MaxPolls
    /\ checkInputReads(mInputDevice)
    /\ \E ev \in InputEvents \cup {NoEvent} :
          LET r == checkInput(ev, mDisplayPriority, mSwitching)
          IN  /\ mDisplayPriority' = r.prio
              /\ mSwitching' = r.sw
              /\ lastKind' = EventKind(ev)
    /\ fdsRead' = fdsRead \cup {mInputDevice}
    /\ polls' = polls + 1
    /\ UNCHANGED <<inputDir, mInputDevice, inputPc, initResult, selected,
                   consoleVars, parseVars, threadVars, logVars>>

NextInput == InitInputCall \/ CheckInputNoDevice \/ CheckInputRead

SpecInput == InitInput /\ [][NextInput]_vars

---------------------------------------------------------------------------
(* Claims about the input discovery.                                       *)

\* entry i would pass every step of the discovery and has both keys
Qualifies(i) ==
    LET e == inputDir.entries[i]
    IN  e.event /\ e.openOk /\ e.ioctlOk /\ e.up /\ e.down

\* C9: initInput selects a device only if its key bitmap has both
\* KEY_VOLUMEUP and KEY_VOLUMEDOWN, and the device selected is the first
\* entry in enumeration order that has both.
C9_SelectsOnlyBothKeys ==
    (inputPc = "ready" /\ initResult) =>
        /\ selected \in 1 .. Len(inputDir.entries)
        /\ Qualifies(selected)
        /\ \A i \in 1 .. selected - 1 : ~Qualifies(i)

\* C10: after a failed discovery no checkInput call reads a descriptor,
\* changes mDisplayPriority or sets mSwitching.
C10_InertAfterFailure ==
    (inputPc = "ready" /\ ~initResult) =>
        /\ fdsRead = {}
        /\ mDisplayPriority = ANDROID_LOG_SILENT
        /\ ~mSwitching

\* C11: a checkInput call changes mDisplayPriority or sets mSwitching only
\* when the event it read is a key-down event of type EV_KEY with a volume
\* code; any other event, and no event, leaves both as they are.
C11_OnlyVolumeKeyDown ==
    [][(polls' = polls + 1 /\ lastKind' # "key") =>
          (mDisplayPriority' = mDisplayPriority /\ mSwitching' = mSwitching)]_vars

---------------------------------------------------------------------------
(* The log devices, processLog and the text() loop.                        *)

\* the texts text() and processLog print, as chars.  The literals are cut to
\* one char each: they are shorter than a row of the display, as "-" is.
DashLine == <<45>>
BannerEdge == <<33>>
BannerText == <<66>>

TagText(tag) ==
    CASE tag = "SystemServer" -> <<83>>
      [] tag = "installd" -> <<105>>
      [] tag = "PackageManager" -> <<80>>
      [] tag = "AndroidRuntime" -> <<65>>
      [] OTHER -> <<79>>

MsgText(msg) ==
    CASE msg = "Start" -> <<62>>
      [] msg = "Unpacking" -> <<85>>
      [] msg = "DexBegin" -> <<68>>
      [] OTHER -> <<>>

\* snprintf(retstr, linelen + 1, "%s: %s", tag, message)
Format(e) == TagText(e.tag) \o <<58, 32>> \o MsgText(e.msg)

\* the descriptor open returns for log device i
LogFd(i) == 20 + i

\* initLogDevice(): the opens in order, stopping at the first that fails
initLogDevice(devs, ok) ==
    [i \in Devs |->
        IF \A j \in 0 .. i : ok[j] THEN LogFd(i)
        ELSE IF \A j \in 0 .. i - 1 : ok[j] THEN -1
        ELSE devs[i]]

\* for (int i = 0; i < mRows; i++) printLine("-"); on each console of cons,
\* for n rows
RECURSIVE printDashes(_, _)
printDashes(cons, n) ==
    IF n = 0 THEN cons
    ELSE printDashes({ printLine(c.buf, c.pos, DashLine) : c \in cons }, n - 1)

\* if (nStartups > 0): the banner after the first marker already
bannerDueEarly(n) == n > 0

\* if (nStartups > 1)
bannerDue(n) == n > 1

\* the three printLine calls of the banner
printBanner(con) ==
    LET c1 == printLine(con.buf, con.pos, BannerEdge)
        c2 == printLine(c1.buf, c1.pos, BannerText)
    IN  printLine(c2.buf, c2.pos, BannerEdge)

\* a loop test that leaves mSwitching out
textLoopCondNoSwitch(exit, sw) == ~exit

\* !exitPending() && !mSwitching: the test of the loops of text(), android()
\* and movie()
textLoopCond(exit, sw) == ~exit /\ ~sw

\* a return value that leaves exitPending() out
modeReturnAnySwitch(exit, sw) == sw

\* if (mSwitching && !exitPending()) return true; else return false;
modeReturn(exit, sw) == sw /\ ~exit

\* the outcome of one read of a log device
NoRead == [kind |-> "none", e |-> EmptySlot]
WouldBlock == [kind |-> "EAGAIN", e |-> EmptySlot]
ReadError == [kind |-> "ERR", e |-> EmptySlot]
EndOfFile == [kind |-> "EOF", e |-> EmptySlot]

TimeLeq(a, b) == a[1] < b[1] \/ (a[1] = b[1] /\ a[2] <= b[2])

\* the entries device i may deliver next: its times do not go back
DevEntries(i) ==
    { [len |-> 1, sec |-> tm[1], nsec |-> tm[2], prio |-> p.prio, tag |-> p.tag,
       msg |-> p.msg, src |-> "read"] :
          tm \in { x \in logSource.times : TimeLeq(devLast[i], x) },
          p \in logSource.payloads[i] }

\* what the read of device i may return, slots being entries[] at the top of
\* the for loop.  A descriptor that is no open log device gives EBADF.
Outcomes(i, slots) ==
    IF mLogDevices[i] <= 0 \/ slots[i].len # 0 THEN {NoRead}
    ELSE IF mLogDevices[i] # LogFd(i) THEN {ReadError}
    ELSE {WouldBlock, ReadError, EndOfFile} \cup
         (IF nReads < MaxReads THEN { [kind |-> "ENTRY", e |-> x] : x \in DevEntries(i) }
          ELSE {})

\* the first for loop of processLog from device i on: whether it got to its
\* end, the slots, the devices that delivered an entry, and what ended it: a
\* device that is not open ("closed"), a read that failed or returned 0
\* ("error")
RECURSIVE readDevices(_, _, _, _)
readDevices(slots, outs, i, got) ==
    IF i >= N_LOG_DEVICES
    THEN [ok |-> TRUE, slots |-> slots, got |-> got, end |-> "done"]
    ELSE IF mLogDevices[i] <= 0
    THEN [ok |-> FALSE, slots |-> slots, got |-> got, end |-> "closed"]
    ELSE IF slots[i].len # 0 THEN readDevices(slots, outs, i + 1, got)
    ELSE IF outs[i].kind = "EAGAIN"
         THEN readDevices([slots EXCEPT ![i] = EmptySlot], outs, i + 1, got)
    ELSE IF outs[i].kind = "ENTRY"
         THEN readDevices([slots EXCEPT ![i] = outs[i].e], outs, i + 1, got \cup {i})
    ELSE [ok |-> FALSE, slots |-> slots, got |-> got, end |-> "error"]

\* nextEntry->sec > entries[i].entry.sec || (nextEntry->sec ==
\* entries[i].entry.sec && nextEntry->nsec > entries[i].entry.nsec)
Later(a, b) == a.sec > b.sec \/ (a.sec = b.sec /\ a.nsec > b.nsec)

\* the second for loop of processLog from device i on, nextEntry being nx
RECURSIVE selectNext(_, _, _)
selectNext(slots, i, nx) ==
    IF i >= N_LOG_DEVICES THEN nx
    ELSE IF slots[i].len = 0 THEN selectNext(slots, i + 1, nx)
    ELSE IF nx = -1 THEN selectNext(slots, i + 1, i)
    ELSE IF Later(slots[nx], slots[i]) THEN selectNext(slots, i + 1, i)
    ELSE selectNext(slots, i + 1, nx)

\* android_log_processLogBuffer(nextEntry, &processedEntry) == 0
decodes(e) == e.msg # "Undecodable"

Printed(st, s) ==
    LET c == printLine(st.buf, st.pos, s)
    IN  [st EXCEPT !.buf = c.buf, !.pos = c.pos, !.la = TRUE]

Replaced(st, s) ==
    LET c == replaceLine(st.buf, st.pos, s)
    IN  [st EXCEPT !.buf = c.buf, !.pos = c.pos, !.la = TRUE]

\* the AndroidRuntime rule as a counter only: the marker is not printed
runtimeRuleSilent(st, e) ==
    IF e.tag = "AndroidRuntime"
    THEN IF e.msg = "Start" THEN [st EXCEPT !.n = @ + 1] ELSE Printed(st, Format(e))
    ELSE st

\* if (!strncmp(processedEntry.tag, "AndroidRuntime", 14)) { ... }
runtimeRule(st, e) ==
    IF e.tag = "AndroidRuntime"
    THEN Printed(IF e.msg = "Start" THEN [st EXCEPT !.n = @ + 1] ELSE st, Format(e))
    ELSE st

\* the rules of the else branch (mDisplayPriority == ANDROID_LOG_FATAL), in
\* the order of the code
fixedRules(st, e) ==
    LET s1 == IF e.tag = "SystemServer" THEN Printed(st, Format(e)) ELSE st
        s2 == IF e.tag = "installd" /\ e.msg = "DexBegin"
              THEN Printed(s1, Format(e)) ELSE s1
        s3 == IF e.tag = "PackageManager" /\ e.msg = "Unpacking"
              THEN Replaced(s2, MsgText(e.msg)) ELSE s2
    IN  runtimeRule(s3, e)

\* what processLog does with a decoded entry: st is the console (buf, pos),
\* nStartups (n) and linesAdded (la)
filterEntry(st, e, prio) ==
    IF prio # ANDROID_LOG_FATAL
    THEN IF e.prio < prio THEN st ELSE Printed(st, Format(e))
    ELSE fixedRules(st, e)

\* entries[] has no initialiser: at the start of a call the slots hold what
\* the stack held: empty slots, an entry, or bytes that do not decode
StaleSlot == [len |-> 1, sec |-> 1, nsec |-> 0, prio |-> 6, tag |-> "Other",
              msg |-> "Text", src |-> "stack"]
JunkSlot == [len |-> 1, sec |-> 0, nsec |-> 0, prio |-> 0, tag |-> "",
             msg |-> "Undecodable", src |-> "stack"]
StackSlots ==
    { [i \in Devs |-> EmptySlot],
      [i \in Devs |-> IF i = 0 THEN StaleSlot ELSE EmptySlot],
      [i \in Devs |-> IF i = 0 THEN EmptySlot ELSE JunkSlot] }

Con == [buf |-> mLineBuffer, pos |-> mBufferPos]

\* threadLoop() that takes text() up to and including ANDROID_LOG_SILENT
ThreadLoopEnterLe ==
    /\ pc = "outer"
    /\ rLoop
    /\ mSwitching' = FALSE
    /\ pc' = IF mDisplayPriority <= ANDROID_LOG_SILENT THEN "text" ELSE "anim"
    /\ UNCHANGED <<mDisplayPriority, rLoop, exitPending, consoleVars, parseVars,
                   inputVars, logVars>>

\* threadLoop(): one turn of while (r) that enters a mode
ThreadLoopEnter ==
    /\ pc = "outer"
    /\ rLoop
    /\ mSwitching' = FALSE
    /\ pc' = IF mDisplayPriority < ANDROID_LOG_SILENT THEN "text" ELSE "anim"
    /\ UNCHANGED <<mDisplayPriority, rLoop, exitPending, consoleVars, parseVars,
                   inputVars, logVars>>

\* threadLoop(): r is false, the teardown
ThreadLoopStop ==
    /\ pc = "outer"
    /\ ~rLoop
    /\ pc' = "stopped"
    /\ UNCHANGED <<rLoop, exitPending, modeVars, consoleVars, parseVars, inputVars,
                   logVars>>

\* requestExit() from another thread
RequestExit ==
    /\ pc \notin {"stopped"}
    /\ ~exitPending
    /\ exitPending' = TRUE
    /\ UNCHANGED <<pc, rLoop, modeVars, consoleVars, parseVars, inputVars, logVars>>

\* text() with an initLogDevice that leaves nStartups as it is
TextEnterKeepsCount ==
    /\ pc = "text"
    /\ \E c \in printDashes({Con}, mRows) :
          mLineBuffer' = c.buf /\ mBufferPos' = c.pos
    /\ \E ok \in [Devs -> BOOLEAN] : mLogDevices' = initLogDevice(mLogDevices, ok)
    /\ nStartups' = nStartups
    /\ shouldDraw' = TRUE
    /\ pollEnd' = "none"
    /\ pc' = "textLoop"
    /\ UNCHANGED <<hist, rLoop, exitPending, modeVars, parseVars, inputVars, entries,
                   nextEntry, linesAdded, logSource, devLast, nReads, ticks,
                   delivered, nBanners, nAfter, lastSwap>>

\* text() up to its do loop
TextEnter ==
    /\ pc = "text"
    /\ \E c \in printDashes({Con}, mRows) :
          mLineBuffer' = c.buf /\ mBufferPos' = c.pos
    /\ \E ok \in [Devs -> BOOLEAN] : mLogDevices' = initLogDevice(mLogDevices, ok)
    /\ nStartups' = 0
    /\ shouldDraw' = TRUE
    /\ pollEnd' = "none"
    /\ pc' = "textLoop"
    /\ UNCHANGED <<hist, rLoop, exitPending, modeVars, parseVars, inputVars, entries,
                   nextEntry, linesAdded, logSource, devLast, nReads, ticks,
                   delivered, nBanners, nAfter, lastSwap>>

\* the read checkInput makes in a mode loop: an event of the keys or
\* nothing, and no read at all when mInputDevice < 0
LoopEvents == IF checkInputReads(mInputDevice) /\ polls < MaxKeys
              THEN { e \in InputEvents : e.type = EV_KEY } \cup {NoEvent}
              ELSE {NoEvent}

\* what the checkInput call of a mode loop may do: k.ev is whether its read
\* returned an event, the rest is what checkInput made of it
LoopInputs ==
    { [ev |-> e # NoEvent, kind |-> EventKind(e),
       in |-> checkInput(e, mDisplayPriority, mSwitching)] : e \in LoopEvents }

\* the do loop of text() from its top to the test of eglSwapBuffers:
\* checkInput, the banner
TextLoopTop(k) ==
    /\ pc = "textLoop"
    /\ ticks < MaxTicks \/ exitPending
    /\ ticks' = ticks + 1
    /\ mDisplayPriority' = k.in.prio
    /\ mSwitching' = k.in.sw
    /\ polls' = IF k.ev THEN polls + 1 ELSE polls
    /\ lastKind' = k.kind
    /\ fdsRead' = IF checkInputReads(mInputDevice) THEN fdsRead \cup {mInputDevice}
                  ELSE fdsRead
    /\ \E c \in { IF bannerDue(nStartups) THEN printBanner(Con) ELSE Con } :
          mLineBuffer' = c.buf /\ mBufferPos' = c.pos
    /\ nBanners' = IF bannerDue(nStartups) THEN nBanners + 1 ELSE nBanners

\* a turn of the loop in which eglSwapBuffers fails: break
TextLoopSwapFails ==
    /\ \E k \in LoopInputs : TextLoopTop(k)
    /\ shouldDraw
    /\ lastSwap' = "fail"
    /\ pc' = "textExit"
    /\ UNCHANGED <<hist, rLoop, exitPending, parseVars, inputDir, mInputDevice,
                   inputPc, initResult, selected, shouldDraw,
                   mLogDevices, nStartups, entries, nextEntry, linesAdded, logSource,
                   devLast, nReads, delivered, nAfter, pollEnd>>

\* a turn of the loop that gets to processLog(): its locals are set up
TextLoopPoll ==
    /\ \E k \in LoopInputs : TextLoopTop(k)
    /\ entries' \in StackSlots
    /\ lastSwap' = IF shouldDraw THEN "ok" ELSE "none"
    /\ pc' = "processLog"
    /\ UNCHANGED <<hist, rLoop, exitPending, parseVars, inputDir, mInputDevice,
                   inputPc, initResult, selected, shouldDraw, nextEntry, linesAdded,
                   delivered, mLogDevices, nStartups, logSource, devLast, nReads,
                   nAfter, pollEnd>>

\* processLog() returning false ends the loop of text()
PollReturnsFatal(ret, how) ==
    /\ shouldDraw' = ret
    /\ pollEnd' = how
    /\ entries' = [i \in Devs |-> EmptySlot]
    /\ nextEntry' = -1
    /\ linesAdded' = FALSE
    /\ delivered' = <<>>
    /\ pc' = IF ret /\ textLoopCond(exitPending, mSwitching) THEN "textLoop"
             ELSE "textExit"
    /\ UNCHANGED <<nStartups, mLineBuffer, mBufferPos, nAfter>>

\* processLog() returns ret: its locals are gone, shouldDraw = ret, the
\* sleep, the loop test
PollReturns(ret, how) ==
    /\ shouldDraw' = ret
    /\ pollEnd' = how
    /\ entries' = [i \in Devs |-> EmptySlot]
    /\ nextEntry' = -1
    /\ linesAdded' = FALSE
    /\ delivered' = <<>>
    /\ pc' = IF textLoopCond(exitPending, mSwitching) THEN "textLoop" ELSE "textExit"
    /\ UNCHANGED <<nStartups, mLineBuffer, mBufferPos, nAfter>>

\* one turn of the while (true) loop of processLog
ProcessLogRound ==
    /\ pc = "processLog"
    /\ \E cleared \in { IF nextEntry # -1 THEN [entries EXCEPT ![nextEntry] = EmptySlot]
                         ELSE entries } :
       \E o0 \in Outcomes(0, cleared), o1 \in Outcomes(1, cleared) :
       \E rd \in { readDevices(cleared, [i \in Devs |-> IF i = 0 THEN o0 ELSE o1], 0, {}) } :
       \E nx \in { selectNext(rd.slots, 0, -1) } :
           /\ devLast' = [i \in Devs |->
                             IF i \in rd.got THEN <<rd.slots[i].sec, rd.slots[i].nsec>>
                             ELSE devLast[i]]
           /\ nReads' = nReads + Cardinality(rd.got)
           /\ IF ~rd.ok THEN PollReturns(FALSE, rd.end)
              ELSE IF nx = -1 THEN PollReturns(linesAdded, "done")
              ELSE IF ~decodes(rd.slots[nx]) THEN PollReturns(FALSE, "undecodable")
              ELSE \E st \in { filterEntry([buf |-> mLineBuffer, pos |-> mBufferPos,
                                             n |-> nStartups, la |-> linesAdded],
                                            rd.slots[nx], mDisplayPriority) } :
                   /\ entries' = rd.slots
                   /\ nextEntry' = nx
                   /\ delivered' = Append(delivered, [rd.slots[nx] EXCEPT !.len = nx + 1])
                   /\ mLineBuffer' = st.buf
                   /\ mBufferPos' = st.pos
                   /\ nStartups' = st.n
                   /\ linesAdded' = st.la
                   /\ nAfter' = IF nStartups > 1 THEN nAfter + 1 ELSE nAfter
                   /\ UNCHANGED <<pc, shouldDraw, pollEnd>>
    /\ UNCHANGED <<hist, rLoop, exitPending, modeVars, parseVars, inputVars,
                   mLogDevices, logSource, ticks, nBanners, lastSwap>>

\* text() that leaves the log devices open when it returns
TextExitKeepsOpen ==
    /\ pc = "textExit"
    /\ mLogDevices' = mLogDevices
    /\ rLoop' = modeReturn(exitPending, mSwitching)
    /\ pc' = "outer"
    /\ UNCHANGED <<exitPending, modeVars, consoleVars, parseVars, inputVars,
                   shouldDraw, nStartups, entries, nextEntry, linesAdded, logSource,
                   devLast, nReads, ticks, delivered, nBanners, nAfter, pollEnd,
                   lastSwap>>

\* text() after its loop: the devices are closed, the return value
TextExit ==
    /\ pc = "textExit"
    /\ mLogDevices' = [i \in Devs |-> 0]
    /\ rLoop' = modeReturn(exitPending, mSwitching)
    /\ pc' = "outer"
    /\ UNCHANGED <<exitPending, modeVars, consoleVars, parseVars, inputVars,
                   shouldDraw, nStartups, entries, nextEntry, linesAdded, logSource,
                   devLast, nReads, ticks, delivered, nBanners, nAfter, pollEnd,
                   lastSwap>>

NextText ==
    \/ ThreadLoopEnter
    \/ ThreadLoopStop
    \/ RequestExit
    \/ TextEnter
    \/ TextLoopSwapFails
    \/ TextLoopPoll
    \/ ProcessLogRound
    \/ TextExit

\* a device with both keys was found by initInput
InputFound ==
    /\ inputDir = [open |-> TRUE,
                   entries |-> <<[event |-> TRUE, openOk |-> TRUE, ioctlOk |-> TRUE,
                                  up |-> TRUE, down |-> TRUE]>>]
    /\ mInputDevice = InputFd(1) /\ inputPc = "ready" /\ initResult = TRUE
    /\ selected = 1 /\ fdsRead = {} /\ polls = 0 /\ lastKind = "none"

\* the thread at the top of while (r), a volume-up press having ended the
\* animation: mDisplayPriority is ANDROID_LOG_SILENT - 1
InitThread ==
    /\ pc = "outer" /\ rLoop = TRUE /\ exitPending = FALSE
    /\ mDisplayPriority = ANDROID_LOG_SILENT - 1
    /\ mSwitching = TRUE
    /\ shouldDraw = FALSE
    /\ mLogDevices \in {[i \in Devs |-> 0], [i \in Devs |-> 99]}
    /\ nStartups = 0
    /\ entries = [i \in Devs |-> EmptySlot]
    /\ nextEntry = -1
    /\ linesAdded = FALSE
    /\ devLast = [i \in Devs |-> <<0, 0>>]
    /\ nReads = 0 /\ ticks = 0 /\ delivered = <<>> /\ nBanners = 0 /\ nAfter = 0
    /\ pollEnd = "none"
    /\ lastSwap = "none"
    /\ IdleConsole /\ IdleParse /\ InputFound

\* the payloads the filter tells apart, by the device that delivers them:
\* /dev/log/main (0) and /dev/log/system (1)
FilterPayloads ==
    [i \in Devs |->
        IF i = 0
        THEN { [prio |-> 7, tag |-> "AndroidRuntime", msg |-> "Start"],
               [prio |-> 4, tag |-> "installd", msg |-> "DexBegin"] }
        ELSE { [prio |-> 6, tag |-> "SystemServer", msg |-> "Text"],
               [prio |-> 4, tag |-> "PackageManager", msg |-> "Unpacking"] }]

\* text() with entries of the kinds the filter tells apart, all of one time
InitText ==
    /\ InitThread
    /\ logSource = [payloads |-> FilterPayloads, times |-> {<<0, 0>>}]

SpecText == InitText /\ [][NextText]_vars

\* text() with entries at any times: /dev/log/main (0) delivers entries of
\* one kind, /dev/log/system (1) also entries that do not decode
InitMerge ==
    /\ InitThread
    /\ logSource = [payloads |-> [i \in Devs |->
                                     {[prio |-> 7, tag |-> "SystemServer", msg |-> "Text"]}
                                     \cup (IF i = 1
                                           THEN {[prio |-> 7, tag |-> "SystemServer",
                                                  msg |-> "Undecodable"]}
                                           ELSE {})],
                    times |-> {<<0, 0>>, <<0, 1>>, <<1, 0>>}]

SpecMerge == InitMerge /\ [][NextText]_vars

---------------------------------------------------------------------------
(* android(), movie() after its parse, and the whole thread.               *)

\* how many frames and pauses a movie() call draws and sleeps before a
\* request ends it
MaxEvents == 8

\* s2ns(1), in a time unit of which 6000 make a second of ns
OneSecond == 6000

\* ns2us, us2ns: C division, which cuts towards 0
ns2us(x) == IF x >= 0 THEN x \div 1000 ELSE -((-x) \div 1000)
us2ns(x) == x * 1000

\* nsecs_t frameDuration = s2ns(1) / animation.fps
frameDuration(a) == OneSecond \div a.fps

\* what systemTime() may have advanced by while a frame was drawn, in ns
DrawTimes == {0, 1000}

\* the frames of a part: the stored entries of the archive under its path
fcount(part) == archive.frames[part.path]

\* a repetition too many
repeatsOneMore(part, r) == part.count = 0 \/ r <= part.count

\* !part.count || r < part.count
repeats(part, r) == part.count = 0 \/ r < part.count

\* an entry of shown: a frame drawn or a pause, and the usleep after it
Event(kind, j, wait) ==
    [ev |-> kind, part |-> partI, rep |-> rep, frame |-> j, wait |-> wait]

\* the loop tests of movie() with exitPending() left out
RequestedNoExit == mSwitching

\* the loop of a request ends: exitPending() || mSwitching
Requested == ~textLoopCond(exitPending, mSwitching)

\* the checkInput call of a turn of a mode loop
LoopCheckInput(k) ==
    /\ mDisplayPriority' = k.in.prio
    /\ mSwitching' = k.in.sw
    /\ polls' = IF k.ev THEN polls + 1 ELSE polls
    /\ lastKind' = k.kind
    /\ fdsRead' = IF checkInputReads(mInputDevice) THEN fdsRead \cup {mInputDevice}
                  ELSE fdsRead
    /\ UNCHANGED <<inputDir, mInputDevice, inputPc, initResult, selected>>

\* android() up to its do loop
AndroidEnter ==
    /\ pc = "anim"
    /\ mAndroidAnimation
    /\ pc' = "android"
    /\ UNCHANGED <<rLoop, exitPending, modeVars, consoleVars, parseVars, inputVars,
                   logVars>>

\* a turn of the loop of android() whose eglSwapBuffers succeeds: the
\* sleep, the loop test
AndroidFrame ==
    /\ pc = "android"
    /\ ticks < MaxTicks \/ exitPending
    /\ \E k \in LoopInputs :
          /\ LoopCheckInput(k)
          /\ pc' = IF textLoopCond(exitPending, k.in.sw) THEN "android"
                   ELSE "androidExit"
    /\ ticks' = ticks + 1
    /\ lastSwap' = "ok"
    /\ UNCHANGED <<rLoop, exitPending, consoleVars, parseVars, shouldDraw, mLogDevices,
                   nStartups, entries, nextEntry, linesAdded, logSource, devLast,
                   nReads, delivered, nBanners, nAfter, pollEnd>>

\* a turn of the loop of android() whose eglSwapBuffers fails: break
AndroidSwapFails ==
    /\ pc = "android"
    /\ ticks < MaxTicks \/ exitPending
    /\ \E k \in LoopInputs : LoopCheckInput(k)
    /\ ticks' = ticks + 1
    /\ lastSwap' = "fail"
    /\ pc' = "androidExit"
    /\ UNCHANGED <<rLoop, exitPending, consoleVars, parseVars, shouldDraw, mLogDevices,
                   nStartups, entries, nextEntry, linesAdded, logSource, devLast,
                   nReads, delivered, nBanners, nAfter, pollEnd>>

\* android() after its loop: the return value
AndroidExit ==
    /\ pc = "androidExit"
    /\ rLoop' = modeReturn(exitPending, mSwitching)
    /\ pc' = "outer"
    /\ UNCHANGED <<exitPending, modeVars, consoleVars, parseVars, inputVars, logVars>>

\* movie() up to its parse loop: without desc.txt it returns false
MovieEnter ==
    /\ pc = "anim"
    /\ ~mAndroidAnimation
    /\ IF ~archive.desc
       THEN /\ rLoop' = FALSE
            /\ pc' = "outer"
            /\ UNCHANGED <<sLine, animation, parsePc>>
       ELSE /\ sLine' = 1
            /\ \E w \in Indeterminate, h \in Indeterminate, f \in Indeterminate :
                  animation' = [width |-> w, height |-> h, fps |-> f, parts |-> <<>>]
            /\ parsePc' = "parse"
            /\ pc' = "movieParse"
            /\ UNCHANGED rLoop
    /\ UNCHANGED <<desc, descTail, archive, mAndroidAnimation, partI, rep, frameJ,
                   sinceLast, delay, shown, exitPending, modeVars, consoleVars, inputVars,
                   logVars>>

\* movie() from the end of its parse to its loops: the frames are looked
\* up, lastFrame and frameDuration are set.  A division by 0 ends the process.
MovieLoad ==
    /\ pc = "movieParse"
    /\ parsePc = "parsed"
    /\ IF animation.fps = 0
       THEN pc' = "crashed" /\ UNCHANGED <<partI, sinceLast, shown>>
       ELSE /\ partI' = 0
            /\ sinceLast' = 0
            /\ shown' = <<>>
            /\ pc' = "movieI"
    /\ UNCHANGED <<desc, descTail, sLine, animation, parsePc, archive,
                   mAndroidAnimation, rep, frameJ, delay, rLoop, exitPending, modeVars,
                   consoleVars, inputVars, logVars>>

\* i < pcount && !exitPending() && !mSwitching
MoviePartTest ==
    /\ pc = "movieI"
    /\ IF partI < Len(animation.parts) /\ ~Requested
       THEN rep' = 0 /\ pc' = "movieR"
       ELSE rep' = rep /\ pc' = "movieExit"
    /\ UNCHANGED <<desc, descTail, sLine, animation, parsePc, archive,
                   mAndroidAnimation, partI, frameJ, sinceLast, delay, shown, rLoop,
                   exitPending, modeVars, consoleVars, inputVars, logVars>>

\* (!part.count || r < part.count) && !exitPending() && !mSwitching, and
\* the end of the part when it fails
MovieRepTest ==
    /\ pc = "movieR"
    /\ LET part == animation.parts[partI + 1]
       IN  IF repeats(part, rep) /\ ~Requested
           THEN frameJ' = 0 /\ partI' = partI /\ pc' = "movieJ"
           ELSE frameJ' = frameJ /\ partI' = partI + 1 /\ pc' = "movieI"
    /\ UNCHANGED <<desc, descTail, sLine, animation, parsePc, archive,
                   mAndroidAnimation, rep, sinceLast, delay, shown, rLoop, exitPending,
                   modeVars, consoleVars, inputVars, logVars>>

\* a turn of the loop over the frames: checkInput, the frame is drawn,
\* eglSwapBuffers (its result is not looked at), the sleep
MovieFrame ==
    /\ pc = "movieJ"
    /\ frameJ < fcount(animation.parts[partI + 1]) /\ ~Requested
    /\ Len(shown) < MaxEvents
    /\ \E k \in LoopInputs : LoopCheckInput(k)
    /\ \E d \in DrawTimes, ok \in BOOLEAN :
          LET wait == ns2us(frameDuration(animation))
          IN  /\ delay' = frameDuration(animation) - (sinceLast + d)
              /\ shown' = Append(shown, Event("frame", frameJ, wait))
              /\ sinceLast' = IF wait > 0 THEN us2ns(wait) ELSE 0
              /\ lastSwap' = IF ok THEN "ok" ELSE "fail"
    /\ frameJ' = frameJ + 1
    /\ UNCHANGED <<desc, descTail, sLine, animation, parsePc, archive,
                   mAndroidAnimation, partI, rep, pc, rLoop, exitPending, consoleVars,
                   shouldDraw, mLogDevices, nStartups, entries, nextEntry, linesAdded,
                   logSource, devLast, nReads, ticks, delivered, nBanners, nAfter,
                   pollEnd>>

\* the loop over the frames is over: usleep(part.pause *
\* ns2us(frameDuration)), r++
MovieRepEnd ==
    /\ pc = "movieJ"
    /\ ~(frameJ < fcount(animation.parts[partI + 1]) /\ ~Requested)
    /\ Len(shown) < MaxEvents \/ Requested
    /\ LET dur == animation.parts[partI + 1].pause * ns2us(frameDuration(animation))
       IN  /\ shown' = Append(shown, Event("pause", frameJ, dur))
           /\ sinceLast' = sinceLast + us2ns(dur)
    /\ rep' = rep + 1
    /\ pc' = "movieR"
    /\ UNCHANGED <<desc, descTail, sLine, animation, parsePc, archive,
                   mAndroidAnimation, partI, frameJ, delay, rLoop, exitPending, modeVars,
                   consoleVars, inputVars, logVars>>

\* movie() after its loops: the return value; its locals are gone
MovieExit ==
    /\ pc = "movieExit"
    /\ rLoop' = modeReturn(exitPending, mSwitching)
    /\ pc' = "outer"
    /\ animation' = [width |-> 0, height |-> 0, fps |-> 0, parts |-> <<>>]
    /\ partI' = 0 /\ rep' = 0 /\ frameJ' = 0 /\ sinceLast' = 0 /\ delay' = 0
    /\ shown' = <<>>
    /\ UNCHANGED <<desc, descTail, sLine, parsePc, archive, mAndroidAnimation,
                   exitPending, modeVars, consoleVars, inputVars, logVars>>

\* the steps of the thread of the boot animation
NextThread ==
    \/ ThreadLoopEnter
    \/ ThreadLoopStop
    \/ TextEnter
    \/ TextLoopSwapFails
    \/ TextLoopPoll
    \/ ProcessLogRound
    \/ TextExit
    \/ AndroidEnter
    \/ AndroidFrame
    \/ AndroidSwapFails
    \/ AndroidExit
    \/ MovieEnter
    \/ ParseLine
    \/ ParseEnd
    \/ MovieLoad
    \/ MoviePartTest
    \/ MovieRepTest
    \/ MovieFrame
    \/ MovieRepEnd
    \/ MovieExit

NextEngine == NextThread \/ RequestExit

\* the size line and the part lines of the descriptions the thread plays
SizeLine == <<I(1), I(2), I(3)>>
EngineDescs ==
    { <<SizeLine, <<P, I(1), I(0), W(0)>>, <<P, I(0), I(5), W(1)>> >>,
      <<SizeLine, <<P, I(2), I(1), W(0)>>, <<P, I(1), I(0), W(1)>> >>,
      <<SizeLine, <<P, I(0), I(1), W(2)>> >> }

\* the archive: two frames under path 0, one under path 1, none under path 2
EngineFrames == [x \in {W(0), W(1), W(2)} |-> IF x = W(0) THEN 2 ELSE IF x = W(1) THEN 1 ELSE 0]

\* the thread after readyToRun: mDisplayPriority is ANDROID_LOG_SILENT;
\* mSwitching and mLogDevices are set by no constructor.  The log devices
\* have no entry to deliver.
InitEngine ==
    /\ pc = "outer" /\ rLoop = TRUE /\ exitPending = FALSE
    /\ mDisplayPriority = ANDROID_LOG_SILENT
    /\ mSwitching \in BOOLEAN
    /\ shouldDraw = FALSE
    /\ mLogDevices \in {[i \in Devs |-> 0], [i \in Devs |-> 99]}
    /\ nStartups = 0
    /\ entries = [i \in Devs |-> EmptySlot]
    /\ nextEntry = -1
    /\ linesAdded = FALSE
    /\ devLast = [i \in Devs |-> <<0, 0>>]
    /\ nReads = 0 /\ ticks = 0 /\ delivered = <<>> /\ nBanners = 0 /\ nAfter = 0
    /\ pollEnd = "none"
    /\ lastSwap = "none"
    /\ logSource = [payloads |-> [i \in Devs |-> {}], times |-> {}]
    /\ IdleConsole /\ InputFound
    /\ mAndroidAnimation \in BOOLEAN
    /\ IF mAndroidAnimation
       THEN desc = <<>> /\ archive = [desc |-> FALSE, frames |-> <<>>]
       ELSE \/ desc = <<>> /\ archive = [desc |-> FALSE, frames |-> <<>>]
            \/ desc \in EngineDescs /\ archive = [desc |-> TRUE, frames |-> EngineFrames]
    /\ descTail = <<>> /\ sLine = 1
    /\ animation = [width |-> 0, height |-> 0, fps |-> 0, parts |-> <<>>]
    /\ parsePc = "parsed"
    /\ partI = 0 /\ rep = 0 /\ frameJ = 0 /\ sinceLast = 0 /\ delay = 0 /\ shown = <<>>

SpecEngine == InitEngine /\ [][NextEngine]_vars

---------------------------------------------------------------------------
(* Claims about the log merge, the filter and the loop of text().          *)

\* this step hands an entry to the filter
Processes == Len(delivered') = Len(delivered) + 1

\* the entry this step hands to the filter
Processed == delivered'[Len(delivered')]

\* the device an entry of delivered came from
DeviceOf(e) == e.len - 1

IsMarker(e) == e.tag = "AndroidRuntime" /\ e.msg = "Start"

\* C4: of two entries read from different log devices in one processLog
\* call whose sec differ, the one with the smaller sec is handed to the
\* filter first, whenever the reads returned them or EAGAIN.
C4_MergeTotalOrder ==
    \A i, j \in 1 .. Len(delivered) :
        (/\ i < j
         /\ delivered[i].src = "read" /\ delivered[j].src = "read"
         /\ DeviceOf(delivered[i]) # DeviceOf(delivered[j])
         /\ delivered[i].sec # delivered[j].sec)
            => delivered[i].sec < delivered[j].sec

\* C5 as stated: a processLog call that a failed read or a read of 0 bytes
\* ends also ends the loop of text(): the thread goes on to the teardown and
\* does not call processLog again.
C5_ReadErrorEndsLoop ==
    [][(pc = "processLog" /\ pollEnd' = "error" /\ pc' # "processLog")
          => pc' = "textExit"]_vars

\* C5 amended: a failed read or a read of 0 bytes ends that processLog call
\* only: it returns false (nothing is drawn in the next turn), the log devices
\* stay open, and the loop of text() goes on exactly when neither exitPending
\* nor mSwitching holds; its next turn calls processLog again.
C5_ReadErrorEndsCall ==
    [][/\ (pc = "processLog" /\ pollEnd' = "error" /\ pc' # "processLog") =>
             /\ shouldDraw' = FALSE
             /\ mLogDevices' = mLogDevices
             /\ pc' = IF exitPending \/ mSwitching THEN "textExit" ELSE "textLoop"
       /\ (pc = "textLoop" /\ pollEnd = "error" /\ pc' # pc) =>
             pc' = "processLog"]_vars

\* a processLog call that follows one ended by a read error has read an
\* entry
C5_Witness ==
    /\ pc = "processLog"
    /\ pollEnd = "error"
    /\ \E i \in 1 .. Len(delivered) : delivered[i].src = "read"

\* C6 as stated: the banners printed are as many as the entries processed
\* after nStartups got above 1: never more, and as many when a processLog
\* call is over.
C6_BannerPerEntry ==
    /\ nBanners <= nAfter
    /\ pc \in {"textLoop", "textExit"} => nBanners = nAfter

\* C6 amended: the banner is printed by the turns of the loop of text(),
\* not by the entries: a turn that begins with nStartups > 1 prints the
\* three banner rows once at the cursor (and moves it by three), whether or
\* not an entry has been processed since; a turn that begins with nStartups
\* <= 1 prints none, and no other step prints one.
C6_BannerPerTurn ==
    [][/\ (ticks' = ticks + 1 /\ nStartups > 1) =>
             /\ nBanners' = nBanners + 1
             /\ mBufferPos' = (mBufferPos + 3) % mRows
             /\ \A k \in 0 .. 2 :
                   k + mRows > 2 =>
                       mLineBuffer'[(mBufferPos + k) % mRows] =
                           PaddedRow(IF k = 1 THEN BannerText ELSE BannerEdge)
       /\ (ticks' = ticks + 1 /\ nStartups <= 1) =>
             /\ nBanners' = nBanners
             /\ mLineBuffer' = mLineBuffer /\ mBufferPos' = mBufferPos
       /\ ticks' = ticks => nBanners' = nBanners]_vars

\* a banner was printed after two markers, no entry having been processed
\* since the second
C6_Witness == nStartups > 1 /\ nBanners > 0 /\ nAfter = 0

\* C7 as stated: processing a marker with the fixed rules adds one to
\* nStartups and leaves the console as it is: no row written, the cursor
\* unchanged.
C7_MarkerCountsOnly ==
    [][(Processes /\ IsMarker(Processed) /\ mDisplayPriority = ANDROID_LOG_FATAL)
          => /\ nStartups' = nStartups + 1
             /\ mLineBuffer' = mLineBuffer
             /\ mBufferPos' = mBufferPos]_vars

\* C7 amended: processing a marker with the fixed rules (mDisplayPriority =
\* ANDROID_LOG_FATAL) adds one to nStartups and prints the line "tag: message"
\* with printLine, which writes rows and moves the cursor; with any other
\* threshold nStartups stays and the line is printed exactly when the
\* priority of the entry is not below the threshold.
C7_MarkerCountsAndPrints ==
    [][(Processes /\ IsMarker(Processed)) =>
          LET c == printLine(mLineBuffer, mBufferPos, Format(Processed))
          IN  IF mDisplayPriority = ANDROID_LOG_FATAL
              THEN /\ nStartups' = nStartups + 1
                   /\ mLineBuffer' = c.buf /\ mBufferPos' = c.pos
                   /\ linesAdded'
              ELSE /\ nStartups' = nStartups
                   /\ IF Processed.prio >= mDisplayPriority
                      THEN mLineBuffer' = c.buf /\ mBufferPos' = c.pos
                      ELSE mLineBuffer' = mLineBuffer /\ mBufferPos' = mBufferPos]_vars

\* a marker was the last entry processed with the fixed rules and its line
\* is on the console
C7_Witness ==
    /\ pc = "processLog"
    /\ mDisplayPriority = ANDROID_LOG_FATAL
    /\ Len(delivered) > 0
    /\ IsMarker(delivered[Len(delivered)])
    /\ nStartups = 1
    /\ \E r \in 0 .. mRows - 1 : mLineBuffer[r][0] = 65

\* this step is a turn of the while (true) loop of processLog that ends the
\* call
EndsPoll == pc = "processLog" /\ pc' # "processLog"

\* what a delivering turn of processLog selects, clears and keeps: the entry
\* of the smallest (sec, nsec) among the filled slots, of the lowest index
\* among those of that time; the slot of the entry delivered before is
\* cleared (and may be read anew), the other filled slots are kept
MergeStepSelects ==
    [][Processes =>
          /\ nextEntry' = DeviceOf(Processed)
          /\ \A i \in Devs : entries'[i].len # 0 =>
                 /\ ~Later(entries'[nextEntry'], entries'[i])
                 /\ i < nextEntry' => Later(entries'[i], entries'[nextEntry'])
          /\ \A i \in Devs : (i # nextEntry /\ entries[i].len # 0) =>
                 entries'[i] = entries[i]
          /\ nextEntry # -1 =>
                 (entries'[nextEntry].len = 0 \/ nReads' > nReads)]_vars

\* C19: the entry a turn delivers has the smallest (sec, nsec) of the filled
\* slots, and the lowest index among those of that time; the next turn
\* clears that slot only and keeps the other filled slots; the call ends,
\* other than on a failed read, only when no slot is filled.
C19_MergeStep ==
    /\ MergeStepSelects
    /\ [][(EndsPoll /\ pollEnd' \notin {"error", "closed"}) =>
             \A i \in Devs : i # nextEntry => entries[i].len = 0]_vars

\* C20 as stated: once nStartups is above 1 no step brings it back.
C20_CounterNeverResets == [][nStartups > 1 => nStartups' > 1]_vars

\* C20: once nStartups is above 1 it stays above 1, and every turn of the
\* loop of text() prints the banner, until that text() call has returned;
\* a key that changes the threshold does not reset it, but every entry into
\* text() sets it to 0.
C20_CounterUntilReentry ==
    [][/\ (nStartups > 1 /\ pc # "text") => nStartups' > 1
       /\ (nStartups > 1 /\ pc = "textLoop" /\ ticks' = ticks + 1) =>
             nBanners' = nBanners + 1
       /\ (pc = "text" /\ pc' # pc) => nStartups' = 0]_vars

\* text() has been entered again, by a key, after turns that printed the
\* banner
C20_Witness ==
    /\ pc = "textLoop"
    /\ nStartups = 0
    /\ nBanners > 0
    /\ lastKind = "key"
    /\ ~mSwitching

---------------------------------------------------------------------------
(* Claims about the thread and its modes.                                  *)

TextPcs == {"text", "textLoop", "processLog", "textExit"}
MoviePcs == {"movieI", "movieR", "movieJ", "movieExit"}

\* this step enters a mode from the loop of threadLoop
Enters == pc = "outer" /\ pc' \in {"text", "anim"}

\* this step is a turn of the loop of text() or android(), or a frame of
\* movie()
Iterates ==
    \/ pc \in {"textLoop", "android"} /\ ticks' = ticks + 1
    \/ pc = "movieJ" /\ frameJ' = frameJ + 1

\* this step presents a frame: a turn whose eglSwapBuffers succeeds
Presents == Iterates /\ lastSwap' = "ok"

\* C12: every turn of the loop of threadLoop enters text() exactly when
\* mDisplayPriority < ANDROID_LOG_SILENT at that moment and android() or
\* movie() otherwise, with mSwitching false; the threshold starts as
\* ANDROID_LOG_SILENT, so text() is not entered before a key was read.
C12_ModeFromThreshold ==
    /\ [](polls = 0 => pc \notin TextPcs)
    /\ [][/\ Enters =>
                /\ (pc' = "text") <=> (mDisplayPriority < ANDROID_LOG_SILENT)
                /\ mSwitching' = FALSE
                /\ mDisplayPriority' = mDisplayPriority
          /\ (pc = "anim" /\ pc' # pc) => pc' \in {"android", "movieParse", "outer"}]_vars

\* text() was entered after a volume-up press in the animation
C12_Witness ==
    /\ pc = "text"
    /\ mDisplayPriority = ANDROID_LOG_SILENT - 1
    /\ ~mSwitching
    /\ polls > 0

SpecEngineFair == SpecEngine /\ WF_vars(NextThread)

C15_SwapFailureIsFinal ==
    [][lastSwap = "fail" => ~(Presents \/ Enters)]_vars

\* the frames and pauses of the first n steps of the playback of a, from
\* frame j of repetition r of part i: the parts in order, each part's frames
\* in order count times (for ever when count is 0), a pause of pause *
\* frameDuration after each repetition
RECURSIVE Play(_, _, _, _, _)
Play(a, i, r, j, n) ==
    IF n = 0 \/ i >= Len(a.parts) THEN <<>>
    ELSE LET part == a.parts[i + 1]
             fd == ns2us(OneSecond \div a.fps)
         IN  IF ~(part.count = 0 \/ r < part.count) THEN Play(a, i + 1, 0, 0, n)
             ELSE IF j < archive.frames[part.path]
             THEN <<[ev |-> "frame", part |-> i, rep |-> r, frame |-> j, wait |-> fd]>>
                  \o Play(a, i, r, j + 1, n - 1)
             ELSE <<[ev |-> "pause", part |-> i, rep |-> r, frame |-> j,
                     wait |-> part.pause * fd]>>
                  \o Play(a, i, r + 1, 0, n - 1)

\* C16: without an exit or switch request, what movie() has drawn and slept
\* is a beginning of the playback, and all of it when movie() returns.
C16_PlaysPartsInOrder ==
    (pc \in MoviePcs /\ ~exitPending /\ ~mSwitching) =>
        /\ shown = Play(animation, 0, 0, 0, Len(shown))
        /\ pc = "movieExit" => Play(animation, 0, 0, 0, Len(shown) + 1) = shown

\* movie() returns after a part played twice and a part played once
C16_Witness ==
    /\ pc = "movieExit"
    /\ ~exitPending /\ ~mSwitching
    /\ Len(shown) = 8
    /\ shown[8].part = 1
    /\ \E i \in 1 .. 8 : shown[i].part = 0 /\ shown[i].rep = 1 /\ shown[i].ev = "frame"

\* C17: the usleep after a frame is max(0, frameDuration - (now -
\* lastFrame)), that is max(0, delay), in us.
C17_SleepDeductsElapsed ==
    [][(pc = "movieJ" /\ frameJ' = frameJ + 1) =>
          shown'[Len(shown')].wait = (IF delay' > 0 THEN ns2us(delay') ELSE 0)]_vars

\* device i is open: mLogDevices[i] is the descriptor open returned for it
IsOpen(devs, i) == devs[i] = LogFd(i)

\* C21 as stated: a log device that is open is closed only when the thread
\* is about to stop, not when a mode returns to go on with another mode.
C21_OpenUntilShutdown ==
    [][\A i \in Devs :
          (IsOpen(mLogDevices, i) /\ ~IsOpen(mLogDevices', i)) => ~rLoop']_vars

\* C21: mLogDevices changes only when text() is entered and when it returns;
\* every entry opens /dev/log/main anew, and the later devices as long as
\* the opens succeed; every return of text(), to stop or to go on with
\* another mode, closes them and leaves 0.
C21_OpenPerTextCall ==
    [][/\ mLogDevices' # mLogDevices => pc \in {"text", "textExit"}
       /\ (pc = "text" /\ pc' # pc) =>
             /\ mLogDevices'[0] \in {LogFd(0), -1}
             /\ \A i \in Devs : mLogDevices'[i] \in {LogFd(i), -1, mLogDevices[i]}
             /\ \A i \in Devs : IsOpen(mLogDevices', i) =>
                    \A j \in 0 .. i : IsOpen(mLogDevices', j)
       /\ (pc = "textExit" /\ pc' # pc) =>
             \A i \in Devs : mLogDevices'[i] = 0]_vars

\* text() has closed the log devices on a key and has opened them again
C21_Witness ==
    /\ pc = "textLoop"
    /\ \A i \in Devs : IsOpen(mLogDevices, i)
    /\ mDisplayPriority = ANDROID_LOG_SILENT - 2
    /\ ~mSwitching
    /\ pollEnd # "none"
    /\ ~exitPending

\* C22: text() and android() entered while an exit is pending do not reach
\* the body of their loop, and the loop tests of movie() let no frame start,
\* so no key is read, no log entry is processed and no frame is presented
\* after the request.
C22_NoTurnOnceExitPending ==
    [][(exitPending /\ pc \in {"text", "anim", "movieI", "movieR"} /\ pc' # pc) =>
          pc' \notin {"textLoop", "android", "movieJ"}]_vars

\* C23: mDisplayPriority is one of the priority levels, ANDROID_LOG_UNKNOWN
\* (0) to ANDROID_LOG_SILENT.
C23_ThresholdInRange == mDisplayPriority \in 0 .. ANDROID_LOG_SILENT

\* C24: a processLog call starts with every slot empty, and every entry it
\* hands to the filter was read from its device in that call.
C24_SlotsStartEmpty ==
    /\ (pc = "processLog" /\ nextEntry = -1) => \A i \in Devs : entries[i].len = 0
    /\ \A k \in 1 .. Len(delivered) : delivered[k].src = "read"

\* this step is the return of a mode to threadLoop
Returns == pc # "outer" /\ pc' = "outer"

\* C25: a mode returns true exactly when mSwitching is set and no exit is
\* pending; threadLoop enters a mode only after a true (r starts as true),
\* goes to its teardown after a false, and enters no mode after that.
C25_ReentersIffSwitching ==
    [][/\ Returns => (rLoop' <=> (mSwitching /\ ~exitPending))
       /\ Enters => rLoop
       /\ (pc = "outer" /\ pc' # pc) => (pc' = "stopped" <=> ~rLoop)
       /\ pc = "stopped" => pc' = "stopped"]_vars

\* movie() has played its parts, all of a finite count, to the end with no
\* key and no exit, and has returned false
C25_Witness ==
    /\ pc = "outer"
    /\ ~rLoop
    /\ ~mAndroidAnimation /\ archive.desc
    /\ ~exitPending /\ ~mSwitching
    /\ polls = 0
    /\ lastSwap = "ok"

=============================================================================
